---- MODULE Spec2Model ----
(***************************************************************************)
(* The executor registry (ExecutorService::ExecutorResolver) and the RPC   *)
(* handlers of ExecutorService, from                                       *)
(* tensorflow_federated/cc/core/impl/executors/executor_service.cc.        *)
(*                                                                         *)
(* Every inbound RPC is run by a worker.  A handler is cut into steps at   *)
(* the places where another worker can interleave: taking                  *)
(* executors_mutex_, each access to the two tables, the factory call and   *)
(* each call into the backend Executor.  Purely local work (decoding the   *)
(* value references, building the response) belongs to the step before it. *)
(***************************************************************************)
EXTENDS Integers, Sequences, FiniteSets, TLC

\* ------------------------------------------------------------------ bounds
NumWorkers == 2
MaxRpcs == 3
MaxValueId == 0
MaxSeqRpcs == 5
MaxDecodeRpcs == 2
MaxStaleRpcs == 4
MaxWireId == 11
MaxLifeRpcs == 4
MaxRank == 2
MaxDim == 3

Workers == 1..NumWorkers

\* ------------------------------------------------------- cardinality maps
\* Placement names in the order std::string compares them.
PlacementOrder == <<"clients", "server">>

\* The cardinalities lists a GetExecutorRequest may carry.
RequestShapes ==
  { << <<"clients", 1>> >>,
    << <<"clients", 1>>, <<"server", 1>> >>,
    << <<"server", 1>>, <<"clients", 1>> >>,
    << <<"clients", 1>>, <<"clients", 2>> >> }

RECURSIVE InsertAll(_, _)
\* cardinalities.insert({uri, cardinality}) per element: a key already present
\* keeps its value.
InsertAll(m, list) ==
  IF list = <<>> THEN m
  ELSE LET e == Head(list)
           m2 == IF e[1] \in DOMAIN m THEN m ELSE m @@ (e[1] :> e[2])
       IN InsertAll(m2, Tail(list))

EmptyMap == [x \in {} |-> 0]

CardinalityMapOf(list) == InsertAll(EmptyMap, list)

RECURSIVE JoinFrom(_, _)
JoinFrom(m, i) ==
  IF i > Len(PlacementOrder) THEN <<>>
  ELSE LET k == PlacementOrder[i]
       IN (IF k \in DOMAIN m THEN << <<k, m[k]>> >> ELSE <<>>) \o JoinFrom(m, i + 1)

\* "CLIENTS=4,SERVER=1": the name=count pairs in key order.
CardinalitiesToString(cardinalities) == JoinFrom(cardinalities, 1)

CardinalityMaps == {CardinalityMapOf(s) : s \in RequestShapes}
CardStrings == {CardinalitiesToString(m) : m \in CardinalityMaps}

\* ------------------------------------------------------- value references
Digits == <<"0", "1", "2", "3", "4", "5", "6", "7", "8", "9">>

DigitValue(c) == (CHOOSE i \in 1..10 : Digits[i] = c) - 1

IsDigit(c) == \E i \in 1..10 : Digits[i] = c

RECURSIVE DecimalOfReversed(_)
\* The digits come out least significant first.
DecimalOfReversed(n) ==
  IF n < 10 THEN <<Digits[n + 1]>>
  ELSE <<Digits[(n % 10) + 1]>> \o DecimalOfReversed(n \div 10)

RECURSIVE DecimalOf(_)
\* absl::StrCat of a non-negative integer: its decimal digits.
DecimalOf(n) ==
  IF n < 10 THEN <<Digits[n + 1]>>
  ELSE DecimalOf(n \div 10) \o <<Digits[(n % 10) + 1]>>

IdToRemoteValue(value_id) == DecimalOf(value_id)

RECURSIVE DigitsValue(_, _)
DigitsValue(s, acc) ==
  IF s = <<>> THEN acc ELSE DigitsValue(Tail(s), acc * 10 + DigitValue(Head(s)))

\* absl::ascii_isspace (of its six characters, the four a TLA+ string can hold).
IsSpace(c) == c \in {" ", "\t", "\n", "\r"}

RECURSIVE StripLeadingSpace(_)
StripLeadingSpace(s) ==
  IF s # <<>> /\ IsSpace(Head(s)) THEN StripLeadingSpace(Tail(s)) ELSE s

RECURSIVE StripTrailingSpace(_)
StripTrailingSpace(s) ==
  IF s # <<>> /\ IsSpace(s[Len(s)])
  THEN StripTrailingSpace(SubSeq(s, 1, Len(s) - 1)) ELSE s

RECURSIVE StripLeadingZeros(_)
StripLeadingZeros(s) ==
  IF Len(s) > 1 /\ Head(s) = "0" THEN StripLeadingZeros(Tail(s)) ELSE s

\* std::numeric_limits<ValueId>::max() in decimal, ValueId being an unsigned
\* 64-bit integer.
ValueIdMaxDigits ==
  <<"1", "8", "4", "4", "6", "7", "4", "4", "0", "7",
    "3", "7", "0", "9", "5", "5", "1", "6", "1", "5">>

RECURSIVE DigitsLessOrEqual(_, _)
\* a <= b for two digit strings of the same length.
DigitsLessOrEqual(a, b) ==
  IF a = <<>> THEN TRUE
  ELSE IF DigitValue(Head(a)) # DigitValue(Head(b))
  THEN DigitValue(Head(a)) < DigitValue(Head(b))
  ELSE DigitsLessOrEqual(Tail(a), Tail(b))

\* The digits denote a value a ValueId can hold.
FitsValueId(digits) ==
  LET d == StripLeadingZeros(digits)
  IN \/ Len(d) < Len(ValueIdMaxDigits)
     \/ Len(d) = Len(ValueIdMaxDigits) /\ DigitsLessOrEqual(d, ValueIdMaxDigits)

\* Anything is accepted.
SimpleAtoiAcceptsAll(s) == [ok |-> TRUE, digits |-> <<"0">>]

\* absl::SimpleAtoi into an unsigned integer: ASCII whitespace around the
\* text is dropped, one leading sign is read ('-' is refused), what remains
\* must be a non-empty run of decimal digits whose value fits.
SimpleAtoi(s) ==
  LET t == StripTrailingSpace(StripLeadingSpace(s))
      signed == t # <<>> /\ Head(t) \in {"+", "-"}
      negative == signed /\ Head(t) = "-"
      d == IF signed THEN Tail(t) ELSE t
  IN [ok |-> /\ d # <<>>
             /\ ~negative
             /\ \A i \in 1..Len(d) : IsDigit(d[i])
             /\ FitsValueId(d),
      digits |-> d]

SimpleAtoiOk(s) == SimpleAtoi(s).ok

\* RemoteValueToId: [ok, id]; not ok is INVALID_ARGUMENT.
RemoteValueToId(ref) ==
  IF SimpleAtoiOk(ref) THEN [ok |-> TRUE, id |-> DigitsValue(SimpleAtoi(ref).digits, 0)]
  ELSE [ok |-> FALSE, id |-> 0]

\* ------------------------------------------------------------ status codes
OK == "OK"
FailedPrecondition == "FAILED_PRECONDITION"
Internal == "INTERNAL"
InvalidArgument == "INVALID_ARGUMENT"
Unavailable == "UNAVAILABLE"

\* What a backend Executor (or the factory) may fail with: the
\* failed-precondition class and one other class.
BackendErrors == {FailedPrecondition, Unavailable}


\* --------------------------------------------------------------- requests
service_id == "svc"

\* absl::StrCat(cardinalities_string, "/", service_id_, "/", executor_index_)
ExecutorKey(cardinalities_string, index) ==
  <<cardinalities_string, service_id, index>>

\* An identifier this service never minted.
BogusId == <<<<>>, "other", 0>>

NoId == <<<<>>, "", 0>>

CapabilityOps ==
  {"CreateValue", "CreateCall", "CreateStruct", "CreateSelection", "Compute"}

\* The value references a request of each kind may carry, in decoding order
\* (CreateCall: function_ref, then argument_ref when present; CreateStruct:
\* its elements; CreateSelection: source_ref; Compute: value_ref; Dispose:
\* its value_ref list).
RequestRefs(op) ==
  CASE op = "CreateValue" -> {<<>>}
    [] op = "CreateCall" -> {<< <<"0">>, <<"1">> >>}
    [] op = "CreateStruct" -> {<<>>}
    [] op = "CreateSelection" -> {<< <<"1">> >>}
    [] op = "Compute" -> {<< <<"0">> >>, << <<"x">> >>}
    [] op = "Dispose" -> {<< <<"x">>, <<"0">> >>, << <<"0">>, <<"1">> >>}

ValueIds == 0..MaxValueId

\* Reference strings as a client may send them: well-formed decimal ids, ids
\* with a sign or white space around them, an id above what a ValueId holds,
\* and text that is no integer.
RefStrings ==
  { <<"0">>, <<"1">>, <<"0", "7">>,
    <<"+", "1">>, <<" ", "1">>, <<"1", " ">>, <<"\t", "+", "0", "\n">>,
    <<"-", "1">>, <<"-", "0">>, <<"+">>, <<" ">>, <<"1", " ", "1">>,
    <<"x">>, <<"1", "x">>, <<>>,
    <<"1", "8", "4", "4", "6", "7", "4", "4", "0", "7",
      "3", "7", "0", "9", "5", "5", "1", "6", "1", "6">> }

\* Every request of a kind over those strings: CreateCall with and without
\* argument_ref, CreateStruct and Dispose with up to two references.
AnyRequestRefs(op) ==
  LET one == {<<r>> : r \in RefStrings}
      two == {<<r1, r2>> : r1 \in RefStrings, r2 \in RefStrings}
  IN CASE op = "CreateValue" -> {<<>>}
       [] op = "CreateCall" -> one \cup two
       [] op = "CreateStruct" -> {<<>>} \cup one \cup two
       [] op = "CreateSelection" -> one
       [] op = "Compute" -> one
       [] op = "Dispose" -> {<<>>} \cup one \cup two

\* ------------------------------------------------------------ array shapes
\* A dimension of a v0::ArrayShape: a size, or -1 for a dimension not defined.
Dims == -1..MaxDim

\* v0::ArrayShape: the dim list and the unknown_rank flag, which is set only
\* with an empty dim list (testing::CreateArrayShape({}, true)).
ArrayShapes ==
  {[dim |-> d, unknown_rank |-> FALSE] :
     d \in UNION {[1..n -> Dims] : n \in 0..MaxRank}}
  \cup {[dim |-> <<>>, unknown_rank |-> TRUE]}

\* A tensorflow::TensorShape takes a dimension that is not defined.
DimIsDefinedOrUnknown(d) == d >= -1

\* A tensorflow::TensorShape takes only sizes.
DimIsDefined(d) == d >= 0

RECURSIVE BuildTensorShape(_, _)
\* The dimensions are added one by one; one that is not a size ends the
\* conversion with kInvalidArgument.
BuildTensorShape(dim, shape) ==
  IF dim = <<>> THEN [set |-> TRUE, status |-> OK, dims |-> shape]
  ELSE IF DimIsDefined(Head(dim))
  THEN BuildTensorShape(Tail(dim), Append(shape, Head(dim)))
  ELSE [set |-> TRUE, status |-> InvalidArgument, dims |-> <<>>]

\* TensorShapeFromArrayShape: absl::StatusOr<tensorflow::TensorShape>.
TensorShapeFromArrayShape(shape_pb) ==
  IF shape_pb.unknown_rank
  THEN [set |-> TRUE, status |-> InvalidArgument, dims |-> <<>>]
  ELSE BuildTensorShape(shape_pb.dim, <<>>)

\* PartialTensorShapeFromArrayShape: tensorflow::PartialTensorShape() for an
\* unknown rank, else tensorflow::PartialTensorShape(dim).
PartialTensorShapeFromArrayShape(shape_pb) ==
  IF shape_pb.unknown_rank
  THEN [set |-> TRUE, unknown_rank |-> TRUE, dims |-> <<>>]
  ELSE [set |-> TRUE, unknown_rank |-> FALSE, dims |-> shape_pb.dim]

\* ------------------------------------------------------------------ state
VARIABLES
  executors_,              \* cardinalities string -> ExecutorEntry;
                           \* remote_refcount is an integer, ++ and -- add
                           \* and subtract 1
  keys_to_cardinalities_,  \* executor key -> cardinalities string
  executor_index_,         \* the next executor key's index
  executors_mutex_,        \* the worker holding it exclusively, or 0; a shared
                           \* hold begins and ends inside one step
  pc,                      \* each worker's position in its handler
  req,                     \* each worker's request
  loc,                     \* each worker's local variables; disposed: the
                           \* ValueIds its handler has passed to
                           \* executor->Dispose, in call order; owned: the
                           \* OwnedValueId the executor returned; forgotten:
                           \* forget() was called on it; guard_disposed: the
                           \* Dispose calls its destructor made
  resp,                    \* each worker's response and status
  rpcs_left,               \* RPCs the workers may still take
  n_instances,             \* Executor instances the factory has built
  factory_calls,           \* cardinalities string -> times ex_factory_ was called
  grants,                  \* minted key -> GetExecutor grants received by clients
                           \* less the DisposeExecutor calls made on the key
                           \* (negative: disposed more often than granted)
  evicted,                 \* the identifiers HandleNotOK has called
                           \* DestroyExecutor for
  conv,                    \* an ArrayShape handed to the shape conversions
                           \* and what each returned; two ValueIds handed to
                           \* IdToRemoteValue and what RemoteValueToId made
                           \* of the first reference
  released                 \* the Executor instances whose last shared_ptr is gone

vars ==
  <<executors_, keys_to_cardinalities_, executor_index_, executors_mutex_,
    pc, req, loc, resp, rpcs_left, n_instances, factory_calls, grants,
    evicted, conv, released>>

registry == <<executors_, keys_to_cardinalities_, executor_index_>>

\* No OwnedValueId was produced.
NoHandle == -1

NoReq == [op |-> "none", id |-> NoId, cardinalities |-> EmptyMap, refs |-> <<>>]

NoLoc ==
  [cardinalities_string |-> <<>>, new_executor |-> 0, should_destroy |-> FALSE,
   executor |-> 0, status |-> OK, i |-> 0, disposed |-> <<>>,
   owned |-> NoHandle, forgotten |-> FALSE, guard_disposed |-> 0,
   keys_erased |-> 0, entry_executor |-> 0]

NoResp == [status |-> "none", executor_id |-> NoId, value_ref |-> <<>>]

\* No shape conversion is under way.
NoConv ==
  [shape_pb |-> [dim |-> <<>>, unknown_rank |-> FALSE],
   tensor_shape |-> [set |-> FALSE, status |-> OK, dims |-> <<>>],
   partial_shape |-> [set |-> FALSE, unknown_rank |-> FALSE, dims |-> <<>>],
   value_id |-> 0, other_id |-> 0,
   value_ref |-> [set |-> FALSE, id |-> <<>>, other |-> <<>>],
   remote_id |-> [set |-> FALSE, ok |-> FALSE, id |-> 0]]

\* The service after construction, its workers about to take `budget` RPCs.
InitService(budget) ==
  /\ executors_ = [c \in {} |-> 0]
  /\ keys_to_cardinalities_ = [k \in {} |-> 0]
  /\ executor_index_ = 0
  /\ executors_mutex_ = 0
  /\ pc = [p \in Workers |-> "idle"]
  /\ req = [p \in Workers |-> NoReq]
  /\ loc = [p \in Workers |-> NoLoc]
  /\ resp = [p \in Workers |-> NoResp]
  /\ rpcs_left = budget
  /\ n_instances = 0
  /\ factory_calls = [c \in CardStrings |-> 0]
  /\ grants = [k \in {} |-> 0]
  /\ evicted = {}
  /\ released = {}

InitWith(budget) == InitService(budget) /\ conv = NoConv

Init == InitWith(MaxRpcs)

\* ------------------------------------------------------- executors_mutex_
\* No mutual exclusion at all.
CanLockExclusiveUnguarded == TRUE

\* absl::WriterMutexLock can be taken.
CanLockExclusive == executors_mutex_ = 0

\* absl::ReaderMutexLock can be taken.
CanLockShared == executors_mutex_ = 0

\* --------------------------------------------------------- table helpers
\* map.insert: an existing key keeps its value.
MapInsert(m, k, v) == m @@ (k :> v)

MapErase(m, k) == [x \in (DOMAIN m) \ {k} |-> m[x]]

\* The identifiers a client may send: every key minted so far and a bogus one.
KnownIds == (DOMAIN grants) \cup {BogusId}


\* ----------------------------------------------------------- GetExecutor
\* A worker takes a GetExecutor request: ExecutorService::GetExecutor builds
\* the CardinalityMap, ExecutorForRequirements takes the writer lock, builds
\* the cardinalities string and looks it up.  (A request waiting for the lock
\* has had no effect yet: it is a request not yet taken.)
\* A string counts as present once a key was minted for it.
ExecutorExistsOnceMinted(cardinalities_string) ==
  \E k \in DOMAIN grants : k[1] = cardinalities_string

\* executor_exists = (executors_.find(cardinalities_string) != executors_.end())
ExecutorExists(cardinalities_string) ==
  cardinalities_string \in DOMAIN executors_

GetExecutor(p, shape) ==
  /\ pc[p] = "idle"
  /\ rpcs_left > 0
  /\ shape \in RequestShapes
  /\ CanLockExclusive
  /\ rpcs_left' = rpcs_left - 1
  /\ executors_mutex_' = p
  /\ LET cardinalities == CardinalityMapOf(shape)
         cardinalities_string == CardinalitiesToString(cardinalities)
         executor_exists == ExecutorExists(cardinalities_string)
     IN /\ req' = [req EXCEPT ![p] =
             [NoReq EXCEPT !.op = "GetExecutor", !.cardinalities = cardinalities]]
        /\ loc' = [loc EXCEPT ![p].cardinalities_string = cardinalities_string]
        /\ pc' = [pc EXCEPT ![p] =
             IF executor_exists THEN "FR_incr" ELSE "FR_factory"]
  /\ UNCHANGED <<registry, resp, n_instances, factory_calls, grants,
                 evicted, conv, released>>

\* ex_factory_(requirements.cardinalities) returns an executor.
FR_FactoryOk(p) ==
  /\ pc[p] = "FR_factory"
  /\ n_instances' = n_instances + 1
  /\ factory_calls' =
       [factory_calls EXCEPT ![loc[p].cardinalities_string] = @ + 1]
  /\ loc' = [loc EXCEPT ![p].new_executor = n_instances + 1]
  /\ pc' = [pc EXCEPT ![p] = "FR_insert"]
  /\ UNCHANGED <<registry, executors_mutex_, req, resp, rpcs_left, grants,
                 evicted, conv, released>>

\* The factory's failure is swallowed.
FactoryFailureDropped(status) == OK

\* return new_executor.status(); GetExecutor: absl_to_grpc(entry_or.status()).
FactoryFailure(status) == status

\* ex_factory_ fails: the status is returned, the lock released.
FR_FactoryFail(p, err) ==
  /\ pc[p] = "FR_factory"
  /\ factory_calls' =
       [factory_calls EXCEPT ![loc[p].cardinalities_string] = @ + 1]
  /\ executors_mutex_' = 0
  /\ resp' = [resp EXCEPT ![p] = [NoResp EXCEPT !.status = FactoryFailure(err)]]
  /\ pc' = [pc EXCEPT ![p] = "done"]
  /\ UNCHANGED <<registry, req, loc, rpcs_left, n_instances, grants,
                 evicted, conv, released>>

\* The index is left as it is.
NextExecutorIndexStuck(index) == index

\* executor_index_ += 1
NextExecutorIndex(index) == index + 1

\* The new entry counts no grant.
ExecutorEntryUncounted(new_executor, executor_key) ==
  [executor |-> new_executor, remote_refcount |-> 0, executor_id |-> executor_key]

\* ExecutorEntry({std::move(*new_executor), 1, executor_key})
ExecutorEntry(new_executor, executor_key) ==
  [executor |-> new_executor, remote_refcount |-> 1, executor_id |-> executor_key]

\* The new key, executor_index_ += 1, the two inserts (new_executor moved into
\* the entry), return entry.
FR_Insert(p) ==
  /\ pc[p] = "FR_insert"
  /\ LET cardinalities_string == loc[p].cardinalities_string
         executor_key == ExecutorKey(cardinalities_string, executor_index_)
         entry == ExecutorEntry(loc[p].new_executor, executor_key)
     IN /\ executor_index_' = NextExecutorIndex(executor_index_)
        /\ keys_to_cardinalities_' =
             MapInsert(keys_to_cardinalities_, executor_key, cardinalities_string)
        /\ executors_' = MapInsert(executors_, cardinalities_string, entry)
        /\ grants' = MapInsert(grants, executor_key, 0)
        /\ resp' = [resp EXCEPT ![p] =
             [NoResp EXCEPT !.status = OK, !.executor_id = entry.executor_id]]
  /\ loc' = [loc EXCEPT ![p].new_executor = 0,
                         ![p].entry_executor = loc[p].new_executor]
  /\ executors_mutex_' = 0
  /\ pc' = [pc EXCEPT ![p] = "done"]
  /\ UNCHANGED <<req, rpcs_left, n_instances, factory_calls,
                 evicted, conv, released>>

\* it->second.remote_refcount++, return a copy of the entry (the iterator was
\* found under the lock this step still holds).
FR_Incr(p) ==
  /\ pc[p] = "FR_incr"
  /\ LET cardinalities_string == loc[p].cardinalities_string
     IN /\ cardinalities_string \in DOMAIN executors_
        /\ executors_' =
             [executors_ EXCEPT ![cardinalities_string].remote_refcount = @ + 1]
        /\ resp' = [resp EXCEPT ![p] =
             [NoResp EXCEPT !.status = OK,
                            !.executor_id = executors_[cardinalities_string].executor_id]]
        /\ loc' = [loc EXCEPT ![p].entry_executor =
                                 executors_[cardinalities_string].executor]
  /\ executors_mutex_' = 0
  /\ pc' = [pc EXCEPT ![p] = "done"]
  /\ UNCHANGED <<keys_to_cardinalities_, executor_index_, req, rpcs_left,
                 n_instances, factory_calls, grants,
                 evicted, conv, released>>

\* ------------------------------------------------------ Executor lifetime
\* Only the registry's entries keep an instance alive.
UseCountOfEntries(executors, locals, instance) ==
  Cardinality({c \in DOMAIN executors : executors[c].executor = instance})

\* The shared_ptr copies of an instance: in the registry's entries, in
\* GetExecutor's new_executor (until it is moved into the entry), in the entry
\* copy GetExecutor's handler got back, and in the handlers' executor_out.
UseCount(executors, locals, instance) ==
  Cardinality({c \in DOMAIN executors : executors[c].executor = instance})
  + Cardinality({p \in Workers : locals[p].new_executor = instance})
  + Cardinality({p \in Workers : locals[p].entry_executor = instance})
  + Cardinality({p \in Workers : locals[p].executor = instance})

\* The instances released once copies were dropped: those left with no copy.
ReleasedAfter(executors, locals) ==
  released \cup {instance \in 1..n_instances :
                   UseCount(executors, locals, instance) = 0}

\* -------------------------------------------------------- DestroyExecutor
\* The entry is left in executors_.
DestroyedExecutorsKept(id) == executors_

\* executors_ is cleared.
DestroyedExecutorsAll(id) ==
  IF id \in DOMAIN keys_to_cardinalities_ THEN [c \in {} |-> 0] ELSE executors_

\* The entry of the string the identifier was minted for is erased.
DestroyedExecutorsOfString(id) == MapErase(executors_, id[1])

\* executors_ after DestroyExecutor(id).
DestroyedExecutors(id) ==
  IF id \in DOMAIN keys_to_cardinalities_
  THEN MapErase(executors_, keys_to_cardinalities_[id])
  ELSE executors_

\* The row is left in keys_to_cardinalities_.
DestroyedKeysKept(id) == keys_to_cardinalities_

\* keys_to_cardinalities_ after DestroyExecutor(id).
DestroyedKeys(id) ==
  IF id \in DOMAIN keys_to_cardinalities_
  THEN MapErase(keys_to_cardinalities_, id)
  ELSE keys_to_cardinalities_

\* DestroyExecutor(id), called by DisposeExecutor (should_destroy) or by
\* HandleNotOK; the caller then returns its status.
DestroyExecutor(p) ==
  /\ pc[p] = "DX_lock"
  /\ CanLockExclusive
  /\ executors_' = DestroyedExecutors(req[p].id)
  /\ keys_to_cardinalities_' = DestroyedKeys(req[p].id)
  /\ evicted' = IF req[p].op \in CapabilityOps
                THEN evicted \cup {req[p].id} ELSE evicted
  /\ resp' = [resp EXCEPT ![p] = [NoResp EXCEPT !.status = loc[p].status]]
  /\ pc' = [pc EXCEPT ![p] = "done"]
  /\ loc' = [loc EXCEPT ![p].keys_erased =
                 IF req[p].id \in DOMAIN keys_to_cardinalities_ THEN 1 ELSE 0]
  /\ released' = ReleasedAfter(executors_', loc)
  /\ UNCHANGED <<executor_index_, executors_mutex_, req, rpcs_left,
                 n_instances, factory_calls, grants, conv>>

\* -------------------------------------------------------- DisposeExecutor
\* The count reaching 0 goes unnoticed.
ShouldDestroyNever(remote_refcount) == FALSE

\* Destroys one DisposeExecutor too early.
ShouldDestroyOffByOne(remote_refcount) == remote_refcount <= 1

\* Destroys only once the count has gone below zero.
ShouldDestroyBelowZero(remote_refcount) == remote_refcount < 0

\* should_destroy = ex_it->second.remote_refcount == 0, after the decrement.
ShouldDestroy(remote_refcount) == remote_refcount = 0

\* An unknown key is an error, as it is for ExecutorForId.
DisposeUnknownAsForId == FailedPrecondition

\* What DisposeExecutor returns for a key that is not in keys_to_cardinalities_.
DisposeUnknownStatus == OK

\* The lock taken for the decrement is still held when DestroyExecutor is called.
LockKeptAfterDecrement(p) == p

\* executors_mutex_ once the block of the decrement has been left: the
\* WriterMutexLock is destroyed with the block, before DestroyExecutor is called.
LockAfterDecrement(p) == 0

\* A worker takes a DisposeExecutor request: ExecutorResolver::DisposeExecutor,
\* its critical section: find the key, find the entry, remote_refcount--,
\* should_destroy.
DisposeExecutor(p, id) ==
  /\ pc[p] = "idle"
  /\ rpcs_left > 0
  /\ id \in KnownIds
  /\ CanLockExclusive
  /\ rpcs_left' = rpcs_left - 1
  /\ req' = [req EXCEPT ![p] = [NoReq EXCEPT !.op = "DisposeExecutor", !.id = id]]
  /\ grants' = IF id \in DOMAIN grants
               THEN [grants EXCEPT ![id] = @ - 1] ELSE grants
  /\ IF id \notin DOMAIN keys_to_cardinalities_
     THEN /\ resp' = [resp EXCEPT ![p] =
               [NoResp EXCEPT !.status = DisposeUnknownStatus]]
          /\ pc' = [pc EXCEPT ![p] = "done"]
          /\ UNCHANGED <<executors_, executors_mutex_, loc>>
     ELSE IF keys_to_cardinalities_[id] \notin DOMAIN executors_
     THEN /\ resp' = [resp EXCEPT ![p] = [NoResp EXCEPT !.status = Internal]]
          /\ pc' = [pc EXCEPT ![p] = "done"]
          /\ UNCHANGED <<executors_, executors_mutex_, loc>>
     ELSE LET c == keys_to_cardinalities_[id]
              should_destroy == ShouldDestroy(executors_[c].remote_refcount - 1)
          IN /\ executors_' = [executors_ EXCEPT ![c].remote_refcount = @ - 1]
             /\ loc' = [loc EXCEPT ![p].should_destroy = should_destroy]
             /\ executors_mutex_' = LockAfterDecrement(p)
             /\ IF should_destroy
                THEN /\ pc' = [pc EXCEPT ![p] = "DX_lock"]
                     /\ resp' = resp
                ELSE /\ pc' = [pc EXCEPT ![p] = "done"]
                     /\ resp' = [resp EXCEPT ![p] = [NoResp EXCEPT !.status = OK]]
  /\ UNCHANGED <<keys_to_cardinalities_, executor_index_,
                 n_instances, factory_calls,
                 evicted, conv, released>>

\* ---------------------------------------------------------- ExecutorForId
\* An unknown key reported as not-found.
UnknownExecutorAsNotFound == "NOT_FOUND"

\* absl::FailedPreconditionError for a key that is not in
\* keys_to_cardinalities_.
UnknownExecutorStatus == FailedPrecondition

\* ExecutorResolver::ExecutorForId: [status, executor].
ExecutorForId(id) ==
  IF id \notin DOMAIN keys_to_cardinalities_
  THEN [status |-> UnknownExecutorStatus, executor |-> 0]
  ELSE IF keys_to_cardinalities_[id] \notin DOMAIN executors_
  THEN [status |-> Internal, executor |-> 0]
  ELSE [status |-> OK, executor |-> executors_[keys_to_cardinalities_[id]].executor]

\* HandleNotOK never destroys the executor.
EvictsExecutorNever(status) == FALSE

\* HandleNotOK destroys the executor on every error.
EvictsExecutorAlways(status) == status # OK

\* HandleNotOK destroys the executor on this status.
EvictsExecutor(status) == status = FailedPrecondition

\* The references of the request all decode (TFF_TRYLOG_GRPC(RemoteValueToId)).
AllDecode(refs) == \A i \in 1..Len(refs) : RemoteValueToId(refs[i]).ok

\* The loop ends at a reference that does not decode.
NextDecodableAborting(refs, i) ==
  IF i <= Len(refs) /\ RemoteValueToId(refs[i]).ok THEN i ELSE 0

\* Dispose's loop: the first position from i on whose reference decodes, or 0.
NextDecodable(refs, i) ==
  IF \E j \in i..Len(refs) : RemoteValueToId(refs[j]).ok
  THEN CHOOSE j \in i..Len(refs) :
         /\ RemoteValueToId(refs[j]).ok
         /\ \A k \in i..(j - 1) : ~RemoteValueToId(refs[k]).ok
  ELSE 0

\* Dispose passes RequireExecutor's error on, as the other handlers do.
DisposeUnresolvedPropagated(status) == status

\* Dispose: if (!executor_status.ok()) return grpc::Status::OK.
DisposeUnresolvedStatus(status) == OK

\* A worker takes a CreateValue, CreateCall, CreateStruct, CreateSelection,
\* Compute or Dispose request.  RequireExecutor: the lookup of ExecutorForId
\* under the reader lock; then what the handler does with it up to its first
\* call into the executor: RequireExecutor's error is returned (Dispose
\* returns OK instead), the references are decoded.
RequireExecutor(p, op, id, refs) ==
  /\ pc[p] = "idle"
  /\ rpcs_left > 0
  /\ op \in CapabilityOps \cup {"Dispose"}
  /\ id \in KnownIds
  /\ CanLockShared
  /\ rpcs_left' = rpcs_left - 1
  /\ req' = [req EXCEPT ![p] = [NoReq EXCEPT !.op = op, !.id = id, !.refs = refs]]
  /\ LET ex == ExecutorForId(id)
     IN /\ loc' = [loc EXCEPT ![p].status = ex.status, ![p].executor = ex.executor,
                              ![p].i = IF op = "Dispose" /\ ex.status = OK
                                       THEN NextDecodable(refs, 1) ELSE 0]
        /\ IF ex.status # OK
           THEN /\ pc' = [pc EXCEPT ![p] = "done"]
                /\ resp' = [resp EXCEPT ![p] = [NoResp EXCEPT !.status =
                     IF op = "Dispose" THEN DisposeUnresolvedStatus(ex.status)
                     ELSE ex.status]]
           ELSE IF op = "Dispose"
           THEN IF NextDecodable(refs, 1) = 0
                THEN /\ pc' = [pc EXCEPT ![p] = "done"]
                     /\ resp' = [resp EXCEPT ![p] = [NoResp EXCEPT !.status = OK]]
                ELSE /\ pc' = [pc EXCEPT ![p] = "dispose"]
                     /\ resp' = resp
           ELSE IF ~AllDecode(refs)
           THEN /\ pc' = [pc EXCEPT ![p] = "done"]
                /\ resp' = [resp EXCEPT ![p] =
                     [NoResp EXCEPT !.status = InvalidArgument]]
           ELSE /\ pc' = [pc EXCEPT ![p] = "call"]
                /\ resp' = resp
  /\ UNCHANGED <<registry, executors_mutex_, n_instances, factory_calls, grants,
                 evicted, conv, released>>

\* The handlers that receive an OwnedValueId from the executor.
CreateOps == {"CreateValue", "CreateCall", "CreateStruct", "CreateSelection"}

\* The handler returns without forget().
ForgetsNever(op) == FALSE

\* id.value().forget() before return grpc::Status::OK.
Forgets(op) == op \in CreateOps

\* ~OwnedValueId at the end of the handler's scope: the Dispose calls it makes
\* against the owning executor.
OwnedValueIdDestructor(forgotten) == IF forgotten THEN 0 ELSE 1

\* The executor's CreateValue / CreateCall / CreateStruct / CreateSelection
\* returns an OwnedValueId (Materialize: OK): the response is filled, the id
\* forgotten, the handler's scope left.
CallOk(p, value_id) ==
  /\ pc[p] = "call"
  /\ value_id \in ValueIds
  /\ loc' = IF req[p].op \in CreateOps
            THEN [loc EXCEPT ![p].owned = value_id,
                             ![p].forgotten = Forgets(req[p].op),
                             ![p].guard_disposed =
                               OwnedValueIdDestructor(Forgets(req[p].op))]
            ELSE loc
  /\ resp' = [resp EXCEPT ![p] =
       [NoResp EXCEPT !.status = OK,
                      !.value_ref = IF req[p].op = "Compute" THEN <<>>
                                    ELSE IdToRemoteValue(value_id)]]
  /\ pc' = [pc EXCEPT ![p] = "done"]
  /\ UNCHANGED <<registry, executors_mutex_, req, rpcs_left, n_instances,
                 factory_calls, grants,
                 evicted, conv, released>>

\* The executor's call fails: HandleNotOK.
CallFail(p, err) ==
  /\ pc[p] = "call"
  /\ err \in BackendErrors
  /\ loc' = [loc EXCEPT ![p].status = err]
  /\ IF EvictsExecutor(err)
     THEN /\ pc' = [pc EXCEPT ![p] = "DX_lock"]
          /\ resp' = resp
     ELSE /\ pc' = [pc EXCEPT ![p] = "done"]
          /\ resp' = [resp EXCEPT ![p] = [NoResp EXCEPT !.status = err]]
  /\ UNCHANGED <<registry, executors_mutex_, req, rpcs_left, n_instances,
                 factory_calls, grants,
                 evicted, conv, released>>

\* Dispose: executor->Dispose(embedded_value) returns OK; on to the next
\* reference that decodes.
DisposeOk(p) ==
  /\ pc[p] = "dispose"
  /\ LET next == NextDecodable(req[p].refs, loc[p].i + 1)
         embedded_value == RemoteValueToId(req[p].refs[loc[p].i]).id
     IN /\ loc' = [loc EXCEPT ![p].i = next,
                              ![p].disposed = Append(@, embedded_value)]
        /\ IF next = 0
           THEN /\ pc' = [pc EXCEPT ![p] = "done"]
                /\ resp' = [resp EXCEPT ![p] = [NoResp EXCEPT !.status = OK]]
           ELSE UNCHANGED <<pc, resp>>
  /\ UNCHANGED <<registry, executors_mutex_, req, rpcs_left, n_instances,
                 factory_calls, grants,
                 evicted, conv, released>>

\* Dispose: executor->Dispose fails; the status is returned as it is.
DisposeFail(p, err) ==
  /\ pc[p] = "dispose"
  /\ err \in BackendErrors
  /\ LET embedded_value == RemoteValueToId(req[p].refs[loc[p].i]).id
     IN loc' = [loc EXCEPT ![p].status = err,
                           ![p].disposed = Append(@, embedded_value)]
  /\ resp' = [resp EXCEPT ![p] = [NoResp EXCEPT !.status = err]]
  /\ pc' = [pc EXCEPT ![p] = "done"]
  /\ UNCHANGED <<registry, executors_mutex_, req, rpcs_left, n_instances,
                 factory_calls, grants,
                 evicted, conv, released>>

\* ------------------------------------------------------------------ return
\* The response reaches the client; a GetExecutor grant is now held by it.
Return(p) ==
  /\ pc[p] = "done"
  /\ grants' = IF req[p].op = "GetExecutor" /\ resp[p].status = OK
                  /\ resp[p].executor_id \in DOMAIN grants
               THEN [grants EXCEPT ![resp[p].executor_id] = @ + 1] ELSE grants
  /\ pc' = [pc EXCEPT ![p] = "idle"]
  /\ req' = [req EXCEPT ![p] = NoReq]
  /\ loc' = [loc EXCEPT ![p] = NoLoc]
  /\ resp' = [resp EXCEPT ![p] = NoResp]
  /\ released' = ReleasedAfter(executors_, loc')
  /\ UNCHANGED <<registry, executors_mutex_, rpcs_left, n_instances, factory_calls,
                 evicted, conv>>

\* ------------------------------------------------------- shape conversions
\* TensorShapeFromArrayShape(shape_pb) is called.
ConvertTensorShape ==
  /\ ~conv.tensor_shape.set
  /\ conv' = [conv EXCEPT !.tensor_shape = TensorShapeFromArrayShape(conv.shape_pb)]
  /\ UNCHANGED <<registry, executors_mutex_, pc, req, loc, resp, rpcs_left,
                 n_instances, factory_calls, grants, evicted, released>>

\* PartialTensorShapeFromArrayShape(shape_pb) is called.
ConvertPartialTensorShape ==
  /\ ~conv.partial_shape.set
  /\ conv' = [conv EXCEPT !.partial_shape =
                 PartialTensorShapeFromArrayShape(conv.shape_pb)]
  /\ UNCHANGED <<registry, executors_mutex_, pc, req, loc, resp, rpcs_left,
                 n_instances, factory_calls, grants, evicted, released>>

\* ---------------------------------------------------------- wire encoding
\* The ValueIds encoded: the small ones and some of three and ten digits.
WireIds ==
  (0..MaxWireId) \cup {10 * MaxWireId, 100 * MaxWireId + 9, 1000000007}

\* IdToRemoteValue is called on two ValueIds.
EncodeValueIds ==
  /\ ~conv.value_ref.set
  /\ conv' = [conv EXCEPT !.value_ref =
                 [set |-> TRUE, id |-> IdToRemoteValue(conv.value_id),
                  other |-> IdToRemoteValue(conv.other_id)]]
  /\ UNCHANGED <<registry, executors_mutex_, pc, req, loc, resp, rpcs_left,
                 n_instances, factory_calls, grants, evicted, released>>

\* RemoteValueToId is called on the reference IdToRemoteValue produced.
DecodeValueRef ==
  /\ conv.value_ref.set
  /\ ~conv.remote_id.set
  /\ conv' = [conv EXCEPT !.remote_id =
                 [set |-> TRUE] @@ RemoteValueToId(conv.value_ref.id)]
  /\ UNCHANGED <<registry, executors_mutex_, pc, req, loc, resp, rpcs_left,
                 n_instances, factory_calls, grants, evicted, released>>

\* ------------------------------------------------------------ specification
Next ==
  \E p \in Workers :
    \/ \E shape \in RequestShapes : GetExecutor(p, shape)
    \/ FR_FactoryOk(p)
    \/ \E err \in BackendErrors : FR_FactoryFail(p, err)
    \/ FR_Insert(p)
    \/ FR_Incr(p)
    \/ \E id \in KnownIds : DisposeExecutor(p, id)
    \/ DestroyExecutor(p)
    \/ \E op \in CapabilityOps \cup {"Dispose"} : \E id \in KnownIds :
         \E refs \in RequestRefs(op) : RequireExecutor(p, op, id, refs)
    \/ \E v \in ValueIds : CallOk(p, v)
    \/ \E err \in BackendErrors : CallFail(p, err)
    \/ DisposeOk(p)
    \/ \E err \in BackendErrors : DisposeFail(p, err)
    \/ Return(p)

Spec == Init /\ [][Next]_vars


\* Concurrent GetExecutor calls and nothing else, the factory succeeding.
NextReuse ==
  \E p \in Workers :
    \/ \E shape \in RequestShapes : GetExecutor(p, shape)
    \/ FR_FactoryOk(p)
    \/ FR_Insert(p)
    \/ FR_Incr(p)
    \/ Return(p)

SpecReuse == Init /\ [][NextReuse]_vars

\* Fair scheduling of the registry's steps: the factory returns, a handler
\* inside GetExecutor takes its next step, and a handler waiting for the
\* registry lock in DestroyExecutor gets it if it is free again and again.
RegistryFairness ==
  \A p \in Workers :
    /\ WF_vars(FR_FactoryOk(p) \/ \E err \in BackendErrors : FR_FactoryFail(p, err))
    /\ WF_vars(FR_Insert(p))
    /\ WF_vars(FR_Incr(p))
    /\ SF_vars(DestroyExecutor(p))

\* One client issuing GetExecutor and DisposeExecutor one after the other,
\* the factory succeeding, no value RPC.
InitSeq == InitWith(MaxSeqRpcs)

NextSeq ==
  \/ \E shape \in RequestShapes : GetExecutor(1, shape)
  \/ FR_FactoryOk(1)
  \/ FR_Insert(1)
  \/ FR_Incr(1)
  \/ \E id \in KnownIds : DisposeExecutor(1, id)
  \/ DestroyExecutor(1)
  \/ Return(1)

SpecSeq == InitSeq /\ [][NextSeq]_vars

\* Clients calling GetExecutor and DisposeExecutor concurrently, on one shape,
\* the factory succeeding, no value RPC.
InitLife == InitWith(MaxLifeRpcs)

NextLife ==
  \E p \in Workers :
    \/ \E shape \in {<< <<"clients", 1>> >>} : GetExecutor(p, shape)
    \/ FR_FactoryOk(p)
    \/ FR_Insert(p)
    \/ FR_Incr(p)
    \/ \E id \in KnownIds : DisposeExecutor(p, id)
    \/ DestroyExecutor(p)
    \/ Return(p)

SpecLife == InitLife /\ [][NextLife]_vars

\* Fair scheduling: a handler that can take its next step takes it (the factory
\* returns, responses are sent), and a handler waiting for the registry lock
\* gets it if the lock is free again and again.
LifeFairness ==
  \A p \in Workers :
    /\ WF_vars(FR_FactoryOk(p))
    /\ WF_vars(FR_Insert(p))
    /\ WF_vars(FR_Incr(p))
    /\ SF_vars(DestroyExecutor(p))
    /\ WF_vars(Return(p))

SpecLifeFair == SpecLife /\ LifeFairness

\* Clients on one shape: GetExecutor, DisposeExecutor and CreateValue calls
\* that may fail, long enough for an identifier to be removed, replaced and
\* then used again.
InitStale == InitWith(MaxStaleRpcs)

NextStale ==
  \E p \in Workers :
    \/ \E shape \in {<< <<"clients", 1>> >>} : GetExecutor(p, shape)
    \/ FR_FactoryOk(p)
    \/ FR_Insert(p)
    \/ FR_Incr(p)
    \/ \E id \in DOMAIN grants : DisposeExecutor(p, id)
    \/ DestroyExecutor(p)
    \/ \E id \in DOMAIN grants : RequireExecutor(p, "CreateValue", id, <<>>)
    \/ \E v \in ValueIds : CallOk(p, v)
    \/ CallFail(p, FailedPrecondition)
    \/ Return(p)

SpecStale == InitStale /\ [][NextStale]_vars

SpecStaleFair == SpecStale /\ RegistryFairness

\* Two ValueIds encoded, the first reference decoded again.
InitWire ==
  /\ InitService(0)
  /\ \E value_id, other_id \in WireIds :
       conv = [NoConv EXCEPT !.value_id = value_id, !.other_id = other_id]

NextWire == EncodeValueIds \/ DecodeValueRef

SpecWire == InitWire /\ [][NextWire]_vars

\* The two shape conversions, each applied once to an ArrayShape.
InitShape ==
  /\ InitService(0)
  /\ \E shape_pb \in ArrayShapes : conv = [NoConv EXCEPT !.shape_pb = shape_pb]

NextShape == ConvertTensorShape \/ ConvertPartialTensorShape

SpecShape == InitShape /\ [][NextShape]_vars

\* One client: GetExecutor, then value RPCs carrying any reference strings.
InitDecode == InitWith(MaxDecodeRpcs)

NextDecode ==
  \/ \E shape \in {<< <<"clients", 1>> >>} : GetExecutor(1, shape)
  \/ FR_FactoryOk(1)
  \/ FR_Insert(1)
  \/ FR_Incr(1)
  \/ \E op \in CapabilityOps \cup {"Dispose"} : \E id \in KnownIds :
       \E refs \in AnyRequestRefs(op) : RequireExecutor(1, op, id, refs)
  \/ \E v \in ValueIds : CallOk(1, v)
  \/ \E err \in BackendErrors : CallFail(1, err)
  \/ DestroyExecutor(1)
  \/ DisposeOk(1)
  \/ \E err \in BackendErrors : DisposeFail(1, err)
  \/ Return(1)

SpecDecode == InitDecode /\ [][NextDecode]_vars

\* ===================================================================== claims
\* The cardinalities string a GetExecutor request asks for.
RequestedString(p) == CardinalitiesToString(req[p].cardinalities)

\* The executor's capability call of worker p's handler failed with `status`
\* (RequireExecutor had resolved the executor).
BackendFailed(p, status) ==
  /\ req[p].op \in CapabilityOps
  /\ loc[p].executor # 0
  /\ loc[p].status = status

\* No client has called DisposeExecutor on a key more often than GetExecutor
\* granted it.
ClientsDisposeOnlyGrants == \A k \in DOMAIN grants : grants[k] >= 0

\* No entry of executors_ carries the identifier.
NoEntryFor(id) == \A c \in DOMAIN executors_ : executors_[c].executor_id # id

\* C1: two GetExecutor calls with equal cardinality maps that run concurrently
\* (nothing else in flight, the factory succeeding) both return OK with the
\* same identifier, and the factory was called exactly once for their string.
C1_ConcurrentGetExecutorReuse ==
  \A p, q \in Workers :
    (/\ p # q
     /\ pc[p] = "done" /\ pc[q] = "done"
     /\ req[p].cardinalities = req[q].cardinalities)
    => /\ resp[p].status = OK /\ resp[q].status = OK
       /\ resp[p].executor_id = resp[q].executor_id
       /\ factory_calls[RequestedString(p)] = 1

C1_Witness ==
  \E p, q \in Workers :
    /\ p # q
    /\ pc[p] = "done" /\ pc[q] = "done"
    /\ req[p].cardinalities = req[q].cardinalities
    /\ resp[p].executor_id = resp[q].executor_id
    /\ executors_[RequestedString(p)].remote_refcount = 2

\* C2: every cardinalities string with an entry has exactly one key in
\* keys_to_cardinalities_, the one stored in the entry; and the factory is
\* called, and its executor inserted, only while the requested string has no
\* entry.
C2_OneEntryPerString ==
  /\ \A c \in DOMAIN executors_ :
       {k \in DOMAIN keys_to_cardinalities_ : keys_to_cardinalities_[k] = c}
         = {executors_[c].executor_id}
  /\ \A p \in Workers :
       pc[p] \in {"FR_factory", "FR_insert"} =>
         loc[p].cardinalities_string \notin DOMAIN executors_

\* An entry recreated for a string whose earlier key was destroyed.
C2_Witness ==
  \E c \in DOMAIN executors_ : \E k \in DOMAIN grants :
    /\ k[1] = c
    /\ k[3] < executors_[c].executor_id[3]
    /\ k \notin DOMAIN keys_to_cardinalities_

\* C3: with one client calling GetExecutor and DisposeExecutor one after the
\* other (no fault), between calls an identifier with g > 0 grants not yet
\* disposed is in both tables with remote_refcount = g, an identifier whose
\* grants were all disposed is in neither table, and GetExecutor returns the
\* identifier already granted for its string.
C3_RefcountSymmetry ==
  /\ pc[1] = "idle" =>
       \A k \in DOMAIN grants :
         IF grants[k] > 0
         THEN /\ k \in DOMAIN keys_to_cardinalities_
              /\ keys_to_cardinalities_[k] \in DOMAIN executors_
              /\ executors_[keys_to_cardinalities_[k]].executor_id = k
              /\ executors_[keys_to_cardinalities_[k]].remote_refcount = grants[k]
         ELSE k \notin DOMAIN keys_to_cardinalities_ /\ NoEntryFor(k)
  /\ (pc[1] = "done" /\ req[1].op = "GetExecutor") =>
       /\ resp[1].status = OK
       /\ \A k \in DOMAIN grants :
            (grants[k] > 0 /\ k[1] = RequestedString(1)) => resp[1].executor_id = k

\* Three grants, one of them given back: the entry is still there.
C3_Witness ==
  /\ pc[1] = "idle"
  /\ rpcs_left = MaxSeqRpcs - 4
  /\ \E k \in DOMAIN keys_to_cardinalities_ :
       /\ grants[k] = 2
       /\ executors_[keys_to_cardinalities_[k]].remote_refcount = 2

\* C4: whenever the DestroyExecutor called by DisposeExecutor is about to
\* remove an entry, that entry's remote_refcount is 0 (the clients having
\* called DisposeExecutor on no key more often than they were granted it).
C4_DestroyOnlyAtZero ==
  \A p \in Workers :
    (/\ ClientsDisposeOnlyGrants
     /\ pc[p] = "DX_lock" /\ req[p].op = "DisposeExecutor"
     /\ CanLockExclusive
     /\ req[p].id \in DOMAIN keys_to_cardinalities_)
    => executors_[keys_to_cardinalities_[req[p].id]].remote_refcount = 0

\* C5: a CreateValue, CreateCall, CreateStruct, CreateSelection or Compute
\* handler whose executor call failed with failed-precondition returns that
\* error with its identifier evicted; an evicted identifier is in neither
\* table, whatever its refcount was, and from then on ExecutorForId fails on
\* it with failed-precondition.
C5_FaultEviction ==
  /\ \A p \in Workers :
       (pc[p] = "done" /\ BackendFailed(p, FailedPrecondition)) =>
         /\ resp[p].status = FailedPrecondition
         /\ req[p].id \in evicted
  /\ \A id \in evicted :
       /\ id \notin DOMAIN keys_to_cardinalities_
       /\ NoEntryFor(id)
       /\ ExecutorForId(id).status = FailedPrecondition

\* The handler evicted an executor that two clients held grants for.
C5_Witness ==
  \E p \in Workers :
    /\ pc[p] = "done"
    /\ BackendFailed(p, FailedPrecondition)
    /\ req[p].id \in DOMAIN grants
    /\ grants[req[p].id] = 2

\* C6: when the executor's dispose call inside the value-level Dispose
\* handler has failed with failed-precondition, the handler returns with the
\* executor's identifier removed from the registry.
C6_DisposeFaultEvicts ==
  \A p \in Workers :
    (/\ pc[p] = "done" /\ req[p].op = "Dispose"
     /\ loc[p].executor # 0 /\ loc[p].status = FailedPrecondition)
    => req[p].id \notin DOMAIN keys_to_cardinalities_

\* C7: a step of a CreateValue, CreateCall, CreateStruct, CreateSelection or
\* Compute handler whose executor call failed with another error class than
\* failed-precondition ends the handler with that error and changes neither
\* table, no refcount and not the index.
C7_OtherErrorsDoNotEvict ==
  [][\A p \in Workers : \A err \in BackendErrors \ {FailedPrecondition} :
       (pc'[p] # pc[p] /\ BackendFailed(p, err)')
       => /\ registry' = registry
          /\ pc'[p] = "done"
          /\ resp'[p].status = err]_vars

\* The handler returned the error and the executor is still registered.
C7_Witness ==
  \E p \in Workers :
    /\ pc[p] = "done"
    /\ BackendFailed(p, Unavailable)
    /\ resp[p].status = Unavailable
    /\ req[p].id \in DOMAIN keys_to_cardinalities_

\* C8: DisposeExecutor on an identifier that is not in keys_to_cardinalities_
\* returns OK at once and changes neither table, no refcount and not the
\* index.
C8_DisposeUnknownExecutor ==
  [][\A p \in Workers :
       (/\ pc[p] = "idle" /\ req'[p].op = "DisposeExecutor"
        /\ req'[p].id \notin DOMAIN keys_to_cardinalities_)
       => /\ pc'[p] = "done"
          /\ resp'[p].status = OK
          /\ registry' = registry]_vars

\* DisposeExecutor returned OK, without a destroy of its own, for an identifier
\* that a fault had evicted.
C8_Witness ==
  \E p \in Workers :
    /\ pc[p] = "done"
    /\ req[p].op = "DisposeExecutor"
    /\ req[p].id \in evicted \cap DOMAIN grants
    /\ ~loc[p].should_destroy
    /\ resp[p].status = OK

\* C9: a DestroyExecutor whose identifier is in keys_to_cardinalities_ removes
\* that row and the one entry carrying the identifier, and nothing else; one
\* whose identifier is not there changes nothing.
C9_DestroyExecutorIdempotent ==
  [][\A p \in Workers :
       (pc[p] = "DX_lock" /\ pc'[p] = "done") =>
         LET id == req[p].id
         IN IF id \in DOMAIN keys_to_cardinalities_
            THEN /\ executors_[keys_to_cardinalities_[id]].executor_id = id
                 /\ keys_to_cardinalities_' = MapErase(keys_to_cardinalities_, id)
                 /\ executors_' = MapErase(executors_, keys_to_cardinalities_[id])
                 /\ executor_index_' = executor_index_
            ELSE registry' = registry]_vars

\* The fault eviction won the race; the DestroyExecutor of the refcount-zero
\* DisposeExecutor is still to come.
C9_Witness ==
  \E p, q \in Workers :
    /\ pc[p] = "DX_lock" /\ req[p].op = "DisposeExecutor"
    /\ pc[q] = "done" /\ BackendFailed(q, FailedPrecondition)
    /\ req[p].id = req[q].id
    /\ req[p].id \in DOMAIN grants
    /\ req[p].id \notin DOMAIN keys_to_cardinalities_

\* C10: every cardinalities string stored in keys_to_cardinalities_ is a key
\* of executors_, and neither ExecutorForId nor DisposeExecutor has returned
\* the internal (registry inconsistency) error.
C10_TwoTableConsistency ==
  /\ \A k \in DOMAIN keys_to_cardinalities_ :
       keys_to_cardinalities_[k] \in DOMAIN executors_
  /\ \A p \in Workers : loc[p].status # Internal /\ resp[p].status # Internal

\* A handler resolved an identifier that a DisposeExecutor has since destroyed.
C10_Witness ==
  \E p, q \in Workers :
    /\ pc[p] = "call"
    /\ pc[q] = "done" /\ req[q].op = "DisposeExecutor"
    /\ req[q].id = req[p].id
    /\ req[p].id \notin DOMAIN keys_to_cardinalities_

\* C11: the identifier ExecutorForRequirements mints for a new entry differs
\* from every identifier minted before, whatever was destroyed or failed to
\* construct in between: executor_index_ grows with each insert, never
\* shrinks, and lies above the index of every minted identifier.
C11_IdentifierNeverReused ==
  [][/\ executor_index_' >= executor_index_
     /\ \A k \in DOMAIN grants' : k[3] < executor_index_'
     /\ \A p \in Workers :
          (pc[p] = "FR_insert" /\ pc'[p] = "done") =>
            /\ resp'[p].executor_id \notin DOMAIN grants
            /\ executor_index_' > executor_index_]_vars

\* GetExecutor minted a second identifier for a string whose first identifier
\* was destroyed.
C11_Witness ==
  \E p \in Workers :
    /\ pc[p] = "done" /\ req[p].op = "GetExecutor"
    /\ resp[p].status = OK
    /\ resp[p].executor_id[3] = executor_index_ - 1
    /\ \E k \in DOMAIN grants :
         /\ k # resp[p].executor_id
         /\ k[1] = resp[p].executor_id[1]
         /\ k \notin DOMAIN keys_to_cardinalities_
\* C12: ExecutorForId on an identifier that is not in keys_to_cardinalities_
\* is a failed-precondition error; a CreateValue, CreateCall, CreateStruct,
\* CreateSelection or Compute request naming such an identifier is answered
\* with that error at once, with no executor resolved or called and the
\* registry unchanged.
C12_UnknownExecutorFailedPrecondition ==
  [][/\ \A id \in KnownIds :
          id \notin DOMAIN keys_to_cardinalities_ =>
            ExecutorForId(id).status = FailedPrecondition
     /\ \A p \in Workers :
          (/\ pc[p] = "idle" /\ req'[p].op \in CapabilityOps
           /\ req'[p].id \notin DOMAIN keys_to_cardinalities_)
          => /\ pc'[p] = "done"
             /\ resp'[p].status = FailedPrecondition
             /\ resp'[p].value_ref = <<>>
             /\ loc'[p].executor = 0
             /\ registry' = registry]_vars

\* A request on an identifier that an earlier fault had evicted was refused.
C12_Witness ==
  \E p \in Workers :
    /\ pc[p] = "done"
    /\ req[p].op \in CapabilityOps
    /\ req[p].id \in evicted
    /\ loc[p].executor = 0
    /\ resp[p].status = FailedPrecondition
\* C13: a GetExecutor whose factory call leaves it without an executor returns
\* the factory's error and no identifier, with both tables, every refcount and
\* the index unchanged, no entry for the requested string and the lock free;
\* and a GetExecutor goes to the factory exactly when its string has no entry.
C13_FactoryFailureRegistersNothing ==
  [][\A p \in Workers :
       /\ (pc[p] = "FR_factory" /\ pc'[p] = "done") =>
            /\ resp'[p].status \in BackendErrors
            /\ resp'[p].executor_id = NoId
            /\ registry' = registry
            /\ loc[p].cardinalities_string \notin DOMAIN executors_'
            /\ executors_mutex_' = 0
            /\ factory_calls'[loc[p].cardinalities_string] =
                 factory_calls[loc[p].cardinalities_string] + 1
       /\ (pc[p] = "idle" /\ req'[p].op = "GetExecutor") =>
            (pc'[p] = "FR_factory"
               <=> loc'[p].cardinalities_string \notin DOMAIN executors_)]_vars

\* The factory was called twice for a string and failed the first time: the
\* second call's executor is the only one registered.
C13_Witness ==
  \E c \in DOMAIN executors_ :
    /\ factory_calls[c] = 2
    /\ n_instances = 1
    /\ executor_index_ = 1
    /\ executors_[c].executor_id = ExecutorKey(c, 0)
\* The references a handler decodes before it calls the executor.
DecodingOps == {"CreateCall", "CreateStruct", "CreateSelection", "Compute"}

\* The decimal string form of a non-negative integer: digits and nothing else.
IsDecimalString(s) == s # <<>> /\ \A i \in 1..Len(s) : IsDigit(s[i])

\* White space, then an optional '+', then a decimal string whose value a
\* ValueId holds, then white space.
IsPaddedDecimal(s) ==
  \E a, b \in 0..Len(s) :
    /\ a + b < Len(s)
    /\ \A i \in 1..a : IsSpace(s[i])
    /\ \A i \in (Len(s) - b + 1)..Len(s) : IsSpace(s[i])
    /\ LET m == SubSeq(s, a + 1, Len(s) - b)
           d == IF Head(m) = "+" THEN Tail(m) ELSE m
       IN IsDecimalString(d) /\ FitsValueId(d)

\* Worker p's step takes a request of a decoding handler whose executor
\* resolves.
TakesResolved(p) ==
  /\ pc[p] = "idle"
  /\ req'[p].op \in DecodingOps
  /\ req'[p].id \in DOMAIN keys_to_cardinalities_

\* The request is refused as an invalid argument: nothing called, no handle,
\* the registry as it was.
RefusedInvalidArgument(p) ==
  /\ pc'[p] = "done"
  /\ resp'[p].status = InvalidArgument
  /\ resp'[p].value_ref = <<>>
  /\ registry' = registry

\* C14 as stated: a CreateCall, CreateStruct, CreateSelection or Compute
\* request holding a reference that is not the decimal string form of a
\* non-negative integer is refused as an invalid argument, with no executor
\* call, no handle and the registry unchanged.
C14_MalformedRefRejected ==
  [][\A p \in Workers :
       (/\ TakesResolved(p)
        /\ \E i \in 1..Len(req'[p].refs) : ~IsDecimalString(req'[p].refs[i]))
       => RefusedInvalidArgument(p)]_vars

\* C14 amended: the request is refused in that way exactly when one of its
\* references is not white space, an optional '+', decimal digits of a value a
\* ValueId holds, white space; otherwise the handler goes on to call the
\* executor.
C14_UndecodableRefRejected ==
  [][\A p \in Workers :
       TakesResolved(p) =>
         IF \E i \in 1..Len(req'[p].refs) : ~IsPaddedDecimal(req'[p].refs[i])
         THEN RefusedInvalidArgument(p)
         ELSE pc'[p] = "call" /\ registry' = registry]_vars

\* A CreateCall whose function_ref is well formed and whose argument_ref is a
\* negative number was refused, its executor still registered.
C14_Witness ==
  \E p \in Workers :
    /\ pc[p] = "done"
    /\ req[p].op = "CreateCall"
    /\ req[p].refs = << <<"1">>, <<"-", "1">> >>
    /\ req[p].id \in DOMAIN keys_to_cardinalities_
    /\ resp[p].status = InvalidArgument
\* C15: a Dispose request whose executor identifier is not in
\* keys_to_cardinalities_ is answered OK at once: no executor is resolved,
\* none of its references is passed to an executor's Dispose, and the registry
\* is unchanged.
C15_DisposeUnresolvedExecutor ==
  [][\A p \in Workers :
       (/\ pc[p] = "idle" /\ req'[p].op = "Dispose"
        /\ req'[p].id \notin DOMAIN keys_to_cardinalities_)
       => /\ pc'[p] = "done"
          /\ resp'[p].status = OK
          /\ loc'[p].executor = 0
          /\ loc'[p].disposed = <<>>
          /\ registry' = registry]_vars

\* Dispose returned OK for values of an executor that a fault had evicted.
C15_Witness ==
  \E p \in Workers :
    /\ pc[p] = "done"
    /\ req[p].op = "Dispose"
    /\ req[p].id \in evicted
    /\ req[p].refs # <<>>
    /\ loc[p].disposed = <<>>
    /\ resp[p].status = OK
RECURSIVE DecodedIds(_)
\* The ValueIds of the references that decode, in request order.
DecodedIds(refs) ==
  IF refs = <<>> THEN <<>>
  ELSE (IF RemoteValueToId(Head(refs)).ok
        THEN <<RemoteValueToId(Head(refs)).id>> ELSE <<>>)
       \o DecodedIds(Tail(refs))

\* C16: a Dispose handler that resolved its executor calls executor->Dispose
\* on the references that decode, in request order and once each, skipping the
\* others; while it runs it has called a proper prefix of them; it returns OK
\* after the last one, or the error of the first call that failed, having made
\* no call after that one.
C16_DisposeInRequestOrder ==
  \A p \in Workers :
    (req[p].op = "Dispose" /\ loc[p].executor # 0) =>
      LET ids == DecodedIds(req[p].refs)
          n == Len(loc[p].disposed)
      IN /\ n <= Len(ids)
         /\ loc[p].disposed = SubSeq(ids, 1, n)
         /\ pc[p] = "dispose" =>
              /\ n < Len(ids)
              /\ RemoteValueToId(req[p].refs[loc[p].i]).id = ids[n + 1]
         /\ pc[p] = "done" =>
              IF loc[p].status = OK
              THEN resp[p].status = OK /\ n = Len(ids)
              ELSE /\ loc[p].status \in BackendErrors
                   /\ resp[p].status = loc[p].status
                   /\ n >= 1

\* The first reference did not decode and was skipped; the executor's Dispose
\* of the second failed and its error was returned.
C16_Witness ==
  \E p \in Workers :
    /\ pc[p] = "done"
    /\ req[p].op = "Dispose"
    /\ req[p].refs = << <<"x">>, <<"0", "7">> >>
    /\ loc[p].disposed = <<7>>
    /\ resp[p].status = Unavailable
\* C17: when a CreateValue, CreateCall, CreateStruct or CreateSelection handler
\* has returned, a handle the executor produced for it is either in the OK
\* response, forgotten and not disposed, or not in the response and disposed
\* once by its guard; the handler itself disposed nothing; and a handler
\* whose executor call failed holds no handle and answers with none.
C17_HandleOwnership ==
  \A p \in Workers :
    (pc[p] = "done" /\ req[p].op \in CreateOps) =>
      /\ loc[p].disposed = <<>>
      /\ IF loc[p].owned # NoHandle
         THEN LET handed_over == /\ resp[p].status = OK
                                 /\ resp[p].value_ref = IdToRemoteValue(loc[p].owned)
                                 /\ loc[p].forgotten
              IN /\ handed_over \/ resp[p].value_ref = <<>>
                 /\ handed_over <=> loc[p].guard_disposed = 0
                 /\ ~handed_over <=> loc[p].guard_disposed = 1
         ELSE resp[p].value_ref = <<>> /\ loc[p].guard_disposed = 0
                /\ resp[p].status # OK

\* CreateSelection returned the handle the executor produced, undisposed.
C17_Witness ==
  \E p \in Workers :
    /\ pc[p] = "done"
    /\ req[p].op = "CreateSelection"
    /\ loc[p].owned = 0
    /\ resp[p].value_ref = <<"0">>
    /\ loc[p].guard_disposed = 0
\* C18: a DisposeExecutor that starts on an entry of refcount 1 while another
\* DisposeExecutor on the same identifier, which took the refcount from 2 to
\* 1, has not yet returned: the earlier call did not compute should_destroy,
\* the later one does and goes on to DestroyExecutor; and once a
\* DisposeExecutor that computed should_destroy is done, its identifier is in
\* neither table.
C18_OneDisposeSeesZero ==
  [][/\ \A p, q \in Workers :
          (/\ p # q
           /\ pc[p] = "done" /\ req[p].op = "DisposeExecutor"
           /\ resp[p].status = OK
           /\ pc[q] = "idle" /\ req'[q].op = "DisposeExecutor"
           /\ req'[q].id = req[p].id
           /\ req[p].id \in DOMAIN keys_to_cardinalities_
           /\ executors_[keys_to_cardinalities_[req[p].id]].remote_refcount = 1)
          => /\ ~loc[p].should_destroy
             /\ loc'[q].should_destroy
             /\ pc'[q] = "DX_lock"
     /\ \A q \in Workers :
          (/\ pc'[q] = "done" /\ req'[q].op = "DisposeExecutor"
           /\ loc'[q].should_destroy)
          => /\ req'[q].id \notin DOMAIN keys_to_cardinalities_'
             /\ \A c \in DOMAIN executors_' :
                  executors_'[c].executor_id # req'[q].id]_vars

\* Two DisposeExecutor calls on one identifier are both done: one computed
\* should_destroy, the other did not, and the identifier is gone.
C18_Witness ==
  \E p, q \in Workers :
    /\ p # q
    /\ pc[p] = "done" /\ pc[q] = "done"
    /\ req[p].op = "DisposeExecutor" /\ req[q].op = "DisposeExecutor"
    /\ req[p].id = req[q].id
    /\ req[p].id \in DOMAIN grants
    /\ grants[req[p].id] = 0
    /\ ~loc[p].should_destroy /\ loc[q].should_destroy
    /\ req[p].id \notin DOMAIN keys_to_cardinalities_
\* C19: the remote_refcount of every entry in the registry is at least 0.
C19_RefcountNonNegative ==
  \A c \in DOMAIN executors_ : executors_[c].remote_refcount >= 0
\* C20: TensorShapeFromArrayShape returns a tensor shape with the ArrayShape's
\* dimensions when the rank is known and every dimension is at least 0 (the
\* scalar included), and an invalid-argument error when the rank is unknown or
\* a dimension is negative; PartialTensorShapeFromArrayShape keeps the
\* unknown-rank flag and, for a known rank, the dimensions with their -1
\* entries.
C20_ShapeConversions ==
  LET shape_pb == conv.shape_pb
      fully_defined ==
        /\ ~shape_pb.unknown_rank
        /\ \A i \in 1..Len(shape_pb.dim) : shape_pb.dim[i] >= 0
  IN /\ conv.tensor_shape.set =>
          IF fully_defined
          THEN /\ conv.tensor_shape.status = OK
               /\ conv.tensor_shape.dims = shape_pb.dim
          ELSE conv.tensor_shape.status = InvalidArgument
     /\ conv.partial_shape.set =>
          /\ conv.partial_shape.unknown_rank = shape_pb.unknown_rank
          /\ ~shape_pb.unknown_rank => conv.partial_shape.dims = shape_pb.dim

\* The shape {2, -1}: refused as a tensor shape, kept as a partial one.
C20_Witness ==
  /\ conv.shape_pb = [dim |-> <<2, -1>>, unknown_rank |-> FALSE]
  /\ conv.tensor_shape.set
  /\ conv.tensor_shape.status = InvalidArgument
  /\ conv.partial_shape.set
  /\ conv.partial_shape.dims = <<2, -1>>
\* C21: a GetExecutor that looks its string up when the string has no entry
\* (its entry removed, or never there) goes to the factory; and the entry it
\* then registers has refcount 1, the executor the factory just built, held by
\* no other entry and no handler, and an identifier never minted before, which
\* is the one returned.
C21_FreshAfterRemoval ==
  [][\A p \in Workers :
       /\ (/\ pc[p] = "idle" /\ req'[p].op = "GetExecutor"
           /\ loc'[p].cardinalities_string \notin DOMAIN executors_)
          => pc'[p] = "FR_factory"
       /\ (pc[p] = "FR_insert" /\ pc'[p] = "done") =>
            LET c == loc[p].cardinalities_string
                entry == executors_'[c]
            IN /\ factory_calls[c] >= 1
               /\ resp'[p].status = OK
               /\ resp'[p].executor_id = entry.executor_id
               /\ entry.executor_id \notin DOMAIN grants
               /\ keys_to_cardinalities_'[entry.executor_id] = c
               /\ entry.remote_refcount = 1
               /\ entry.executor = n_instances
               /\ \A c2 \in DOMAIN executors_ :
                    executors_[c2].executor # entry.executor
               /\ \A q \in Workers : loc[q].executor # entry.executor]_vars

\* GetExecutor returned a second identifier, with a second executor, for a
\* string whose first identifier a fault had evicted.
C21_Witness ==
  \E p \in Workers : \E x \in evicted :
    /\ pc[p] = "done" /\ req[p].op = "GetExecutor"
    /\ resp[p].status = OK
    /\ x[1] = resp[p].executor_id[1]
    /\ x # resp[p].executor_id
    /\ executors_[x[1]].executor = 2
    /\ executors_[x[1]].remote_refcount = 1
\* Every grant of an identifier for the string was given back and no
\* GetExecutor is in flight.
GrantsMatched(c) ==
  /\ \A k \in DOMAIN grants : k[1] = c => grants[k] <= 0
  /\ \A p \in Workers : pc[p] # "idle" => req[p].op # "GetExecutor"

\* Neither table has an entry for the string.
InNeitherTable(c) ==
  /\ c \notin DOMAIN executors_
  /\ \A k \in DOMAIN keys_to_cardinalities_ : keys_to_cardinalities_[k] # c

\* C22: under fair scheduling, if from some point on every grant for a string
\* has been matched by a DisposeExecutor and no GetExecutor is issued any more,
\* then from some point on neither table has an entry for the string.
C22_TearDownEventually ==
  \A c \in CardStrings : (<>[]GrantsMatched(c)) => (<>[]InNeitherTable(c))

\* All four RPCs done: the identifier's grants were given back and its entry
\* is gone from both tables.
C22_Witness ==
  \E k \in DOMAIN grants :
    /\ grants[k] = 0
    /\ rpcs_left = 0
    /\ \A p \in Workers : pc[p] = "idle"
    /\ GrantsMatched(k[1])
    /\ InNeitherTable(k[1])
    /\ factory_calls[k[1]] = 1
\* The handler is inside a registry operation: in GetExecutor, or about to
\* call DestroyExecutor.
InRegistryOperation(p) ==
  pc[p] \in {"FR_factory", "FR_insert", "FR_incr", "DX_lock"}

\* C23: a handler about to call DestroyExecutor, from DisposeExecutor or from
\* HandleNotOK, does not hold the registry lock; the lock is held only by a
\* handler inside GetExecutor; and under fair scheduling every handler inside a
\* registry operation leaves it, whatever the interleaving.
C23_NoSelfDeadlock ==
  /\ [](\A p \in Workers :
         /\ pc[p] = "DX_lock" => executors_mutex_ # p
         /\ executors_mutex_ = p => pc[p] \in {"FR_factory", "FR_insert", "FR_incr"})
  /\ \A p \in Workers : InRegistryOperation(p) ~> ~InRegistryOperation(p)

\* One handler is inside GetExecutor with the lock while another, whose
\* DisposeExecutor brought the count to zero, waits to call DestroyExecutor.
C23_Witness ==
  \E p, q \in Workers :
    /\ pc[p] = "DX_lock" /\ req[p].op = "DisposeExecutor"
    /\ loc[p].should_destroy
    /\ executors_mutex_ = q
    /\ pc[q] = "FR_incr"
\* C24: a released instance is in no registry entry and in the hands of no
\* handler; a handler whose RequireExecutor resolved an instance and which is
\* at its capability call holds an instance that is not released, whether or
\* not the entry is still there.
C24_LifetimeLongestHolder ==
  /\ \A instance \in released :
       /\ \A c \in DOMAIN executors_ : executors_[c].executor # instance
       /\ \A p \in Workers : loc[p].executor # instance
  /\ \A p \in Workers :
       pc[p] \in {"call", "dispose"} =>
         /\ loc[p].executor \in 1..n_instances
         /\ loc[p].executor \notin released

\* A handler is at its capability call on an executor whose entry another
\* handler's fault eviction has removed in the meantime.
C24_Witness ==
  \E p \in Workers :
    /\ pc[p] = "call"
    /\ req[p].id \in evicted
    /\ req[p].id \notin DOMAIN keys_to_cardinalities_
    /\ \A c \in DOMAIN executors_ : executors_[c].executor # loc[p].executor
    /\ loc[p].executor \notin released
\* C25: with no capability call at all and no identifier disposed more often
\* than it was granted, an identifier of which a client holds a grant it has
\* not given back is resolvable by ExecutorForId: its key and its entry are in
\* the tables.
C25_GrantStaysResolvable ==
  \A k \in DOMAIN grants :
    (ClientsDisposeOnlyGrants /\ grants[k] > 0) =>
      /\ k \in DOMAIN keys_to_cardinalities_
      /\ keys_to_cardinalities_[k] \in DOMAIN executors_
\* Worker p's step is DisposeExecutor(x) or the DestroyExecutor(x) of a
\* handler whose request carries x.
StepCarrying(p, x) ==
  \/ pc[p] = "idle" /\ req'[p].op = "DisposeExecutor" /\ req'[p].id = x
  \/ pc[p] = "DX_lock" /\ pc'[p] = "done" /\ req[p].id = x

\* C26: a DisposeExecutor(X), or the DestroyExecutor(X) of a fault eviction or
\* of a DisposeExecutor, that runs when X is no longer a key changes neither
\* table: whatever entry Y the string of X has by then keeps its executor, its
\* identifier, its refcount and its row in keys_to_cardinalities_.
C26_StaleIdentifierHarmless ==
  [][\A p \in Workers : \A x \in DOMAIN grants :
       (x \notin DOMAIN keys_to_cardinalities_ /\ StepCarrying(p, x))
         => /\ executors_' = executors_
            /\ keys_to_cardinalities_' = keys_to_cardinalities_]_vars

\* A handler that had resolved X failed with failed-precondition and its
\* DestroyExecutor(X) found no key X; X's string has the entry Y, refcount 1.
C26_Witness ==
  \E p \in Workers : \E y \in DOMAIN keys_to_cardinalities_ :
    /\ pc[p] = "done" /\ req[p].op = "CreateValue"
    /\ loc[p].executor # 0
    /\ loc[p].status = FailedPrecondition
    /\ loc[p].keys_erased = 0
    /\ req[p].id # y /\ req[p].id[1] = y[1]
    /\ executors_[y[1]].executor_id = y
    /\ executors_[y[1]].executor # loc[p].executor
    /\ executors_[y[1]].remote_refcount = 1
\* No handler is in flight.
Quiescent == \A p \in Workers : pc[p] = "idle"

\* C27: when no handler is in flight, every entry of executors_ has a
\* remote_refcount of at least 1.
C27_QuiescentRefcount ==
  Quiescent => \A c \in DOMAIN executors_ : executors_[c].remote_refcount >= 1

\* All RPCs done and no handler in flight: an identifier was evicted by a
\* fault and then given back by its client, and the entry that replaced it
\* has refcount 1.
C27_Witness ==
  /\ Quiescent
  /\ rpcs_left = 0
  /\ \E k \in evicted : k \in DOMAIN grants /\ grants[k] = 0
  /\ \E c \in DOMAIN executors_ :
       /\ executors_[c].remote_refcount = 1
       /\ executors_[c].executor_id \notin evicted
\* C28: the reference IdToRemoteValue makes of a ValueId decodes, and to that
\* ValueId; and two different ValueIds get two different references.
C28_WireRoundTrip ==
  /\ conv.remote_id.set =>
       /\ conv.remote_id.ok
       /\ conv.remote_id.id = conv.value_id
  /\ (conv.value_ref.set /\ conv.value_id # conv.other_id) =>
       conv.value_ref.id # conv.value_ref.other

\* A three-digit ValueId went out and came back, next to the ValueId whose
\* digits are the same in reverse order.
C28_Witness ==
  /\ conv.remote_id.set
  /\ conv.value_id = 10 * MaxWireId
  /\ conv.other_id = 11
  /\ Len(conv.value_ref.id) = 3
  /\ conv.remote_id.id = conv.value_id

====
